---- MODULE Spec2Model ----
(***************************************************************************)
(* Model of the D.Watson pharmacy backend (Express + Mongoose): the four   *)
(* collections, the request handlers, the seeding routine and the          *)
(* connection events that start it.                                        *)
(*                                                                         *)
(* Every storage call (one awaited Mongoose operation) is one atomic step; *)
(* the synchronous code that follows the last await of a handler is part   *)
(* of that last step.  A collection is the sequence of its documents in    *)
(* insertion order, which stands for createdAt; updatedAt is not           *)
(* modelled.  Mongoose is modelled as documented for versions 6 and        *)
(* later: required rejects '' on a String path, update validators are off  *)
(* unless runValidators is given, an upsert applies the schema defaults,   *)
(* insertMany is ordered, and unique builds a unique index.                *)
(*                                                                         *)
(* Next is the whole program.  The properties are checked under            *)
(* specifications that keep the part of Next a resource needs:             *)
(*   SettingsSpec      concurrent requests to /api/settings                *)
(*   CategorySpec      seeding and concurrent requests to /api/categories  *)
(*   SeedSpec          connection events, restarts, seeding and            *)
(*                     concurrent POSTs                                    *)
(*   BranchSerialSpec  branch and sale requests, one at a time             *)
(*   SeedSerialSpec    seeding, restarts and POSTs, one at a time          *)
(*   SaleListSpec      GET and POST /api/sales, one at a time              *)
(*   ApiSerialSpec     every route, one request at a time                  *)
(*   ApiFaultSpec      the same, with storage calls that may fail          *)
(***************************************************************************)
EXTENDS Integers, Sequences, FiniteSets, TLC

\* ------------------------------------------------------------------ bounds
MaxProcs == 2
MaxRequests == 2
MaxSerialRequests == 4
MaxSettingsRequests == 4
MaxSeedRequests == 2
MaxRestarts == 1
MaxReconnects == 1
MaxReqId == 2
MaxApiRequests == 2
MaxListRequests == 2
MaxRouteRequests == 2
MaxAcceptRequests == 2
MaxCascadeRequests == 2

Procs == 1..MaxProcs

\* ------------------------------------------------- ObjectIds and documents
\* An ObjectId is a positive number, generated per collection and never
\* reused; BadId is a string that does not cast to an ObjectId.
BadId == 0
ReqIds == 0..MaxReqId

Ids(coll) == {coll[i]._id : i \in 1..Len(coll)}

Exists(coll, id) == \E i \in 1..Len(coll) : coll[i]._id = id

FindById(coll, id) == coll[CHOOSE i \in 1..Len(coll) : coll[i]._id = id]

RECURSIVE Without(_, _)
Without(coll, id) ==
  IF coll = <<>> THEN <<>>
  ELSE IF Head(coll)._id = id THEN Without(Tail(coll), id)
       ELSE <<Head(coll)>> \o Without(Tail(coll), id)

Has(body, k) == k \in DOMAIN body

\* (variant: the body replaces the document, a field it lacks is emptied)
Merge_replace(doc, body, fields) ==
  [k \in DOMAIN doc |->
     IF k \in fields THEN (IF Has(body, k) THEN body[k] ELSE "") ELSE doc[k]]

\* $set of the body's schema fields on a stored document
Merge(doc, body, fields) ==
  [k \in DOMAIN doc |-> IF k \in fields /\ Has(body, k) THEN body[k] ELSE doc[k]]

\* ------------------------------------------------------------- BranchSchema
BranchFields == {"name", "address", "phone", "email"}

\* (variant: only a missing name is rejected)
BranchValid_present(body) == Has(body, "name")

\* required: true on a String path rejects a missing and an empty value
BranchValid(body) == Has(body, "name") /\ body.name # ""

BranchDoc(id, body) ==
  [_id |-> id,
   name |-> body.name,
   address |-> IF Has(body, "address") THEN body.address ELSE "",
   phone |-> IF Has(body, "phone") THEN body.phone ELSE "",
   email |-> IF Has(body, "email") THEN body.email ELSE ""]

\* ----------------------------------------------------------- CategorySchema
CategoryFields == {"name", "description", "color"}

CategoryValid(body) == Has(body, "name") /\ body.name # ""

CategoryDoc(id, body) ==
  [_id |-> id,
   name |-> body.name,
   description |-> IF Has(body, "description") THEN body.description ELSE "",
   color |-> IF Has(body, "color") THEN body.color ELSE "primary"]

\* (variant: no unique index on name)
NameTaken_noIndex(coll, id, name) == FALSE

\* unique: true on name: the unique index rejects a write that would give
\* the document `id` a name another document already has
NameTaken(coll, id, name) ==
  \E i \in 1..Len(coll) : coll[i]._id # id /\ coll[i].name = name

\* ------------------------------------------------------------------- dates
\* A Date is an instant, counted in half days from 2024-01-01T00:00Z.
\* new Date(string), which also casts a date path: a date-only string is
\* midnight UTC of that day, an unparsable string is an Invalid Date.
InvalidDate == -1

NewDate(s) ==
  CASE s = "2024-01-01" -> 0
    [] s = "2024-01-31" -> 60
    [] s = "2024-01-31T12:00:00Z" -> 61
    [] s = "2024-03-01" -> 120
    [] OTHER -> InvalidDate

\* --------------------------------------------------------------- SaleSchema
SaleFields ==
  {"branchId", "date", "items", "total", "costTotal", "profit", "category"}

\* branchId: required ObjectId (cast fails on BadId); date: required Date
\* (cast fails on an Invalid Date).
\* ref: 'Branch' is used by populate only: no existence check on save.
SaleValid(body) ==
  /\ Has(body, "branchId") /\ body.branchId # BadId
  /\ Has(body, "date") /\ NewDate(body.date) # InvalidDate

\* (variant: the totals are recomputed from the line items)
RECURSIVE ItemsTotal(_)
ItemsTotal(items) ==
  IF items = <<>> THEN 0
  ELSE Head(items).quantity * Head(items).unitPrice + ItemsTotal(Tail(items))

RECURSIVE ItemsCost(_)
ItemsCost(items) ==
  IF items = <<>> THEN 0
  ELSE Head(items).quantity * Head(items).cost + ItemsCost(Tail(items))

SaleDoc_recompute(id, body) ==
  LET items == IF Has(body, "items") THEN body.items ELSE <<>>
      total == ItemsTotal(items)
      costTotal == ItemsCost(items)
  IN [_id |-> id,
      branchId |-> body.branchId,
      date |-> NewDate(body.date),
      items |-> items,
      total |-> total,
      costTotal |-> costTotal,
      profit |-> total - costTotal,
      category |-> IF Has(body, "category") THEN body.category ELSE ""]

\* the document Sale.create stores: the body's schema fields as given (an
\* absent number is written -1 here, an absent items list is empty); the
\* _id of a line item is not modelled
SaleDoc(id, body) ==
  [_id |-> id,
   branchId |-> body.branchId,
   date |-> NewDate(body.date),
   items |-> IF Has(body, "items") THEN body.items ELSE <<>>,
   total |-> IF Has(body, "total") THEN body.total ELSE -1,
   costTotal |-> IF Has(body, "costTotal") THEN body.costTotal ELSE -1,
   profit |-> IF Has(body, "profit") THEN body.profit ELSE -1,
   category |-> IF Has(body, "category") THEN body.category ELSE ""]

\* (variant: the cascade removes only the first matching sale)
SaleDeleteMany_first(coll, id) ==
  IF \E i \in 1..Len(coll) : coll[i].branchId = id
  THEN LET k == CHOOSE i \in 1..Len(coll) :
                  /\ coll[i].branchId = id
                  /\ \A j \in 1..(i - 1) : coll[j].branchId # id
       IN SubSeq(coll, 1, k - 1) \o SubSeq(coll, k + 1, Len(coll))
  ELSE coll

\* Sale.deleteMany({ branchId: id })
SaleDeleteMany(coll, id) == SelectSeq(coll, LAMBDA s : s.branchId # id)

\* GET /api/sales: the filter built from req.query; a branchId that does
\* not cast to an ObjectId or a bound that is an Invalid Date makes find
\* reject with a CastError
QueryValid(query) ==
  /\ Has(query, "branchId") => query.branchId # BadId
  /\ Has(query, "from") => NewDate(query.from) # InvalidDate
  /\ Has(query, "to") => NewDate(query.to) # InvalidDate

\* (variant: the upper bound of the date range is exclusive)
SaleFilter_exclusiveTo(query, s) ==
  /\ Has(query, "branchId") => s.branchId = query.branchId
  /\ Has(query, "from") => s.date >= NewDate(query.from)
  /\ Has(query, "to") => s.date < NewDate(query.to)

\* filter.branchId = branchId; filter.date = { $gte: from, $lte: to }
SaleFilter(query, s) ==
  /\ Has(query, "branchId") => s.branchId = query.branchId
  /\ Has(query, "from") => s.date >= NewDate(query.from)
  /\ Has(query, "to") => s.date <= NewDate(query.to)

SaleFind(coll, query) == SelectSeq(coll, LAMBDA s : SaleFilter(query, s))

\* .sort({ date: -1 }): the orders the engine may return; the order of
\* documents with equal dates is not specified
SortDateDesc(coll) ==
  { [i \in 1..Len(coll) |-> coll[f[i]]] :
      f \in { g \in Permutations(1..Len(coll)) :
                \A i \in 1..(Len(coll) - 1) : coll[g[i]].date >= coll[g[i + 1]].date } }

\* .populate('branchId', 'name'): a second query on Branch; a reference
\* that resolves to no Branch becomes null
Populate(sales, branches) ==
  [i \in 1..Len(sales) |->
     [sales[i] EXCEPT !.branchId =
        IF Exists(branches, @)
        THEN [_id |-> @, name |-> FindById(branches, @).name]
        ELSE [null |-> TRUE]]]

\* .sort({ createdAt: -1 }): newest first; documents written by one
\* insertMany keep their reverse insertion order
SortCreatedAtDesc(coll) == [i \in 1..Len(coll) |-> coll[Len(coll) + 1 - i]]

\* ----------------------------------------------------------- SettingsSchema
SettingsFields ==
  {"companyName", "currency", "dateFormat", "itemsPerPage", "defaultCostPercent"}

SettingsDefaults ==
  [companyName |-> "", currency |-> "PKR", dateFormat |-> "DD/MM/YYYY",
   itemsPerPage |-> 10, defaultCostPercent |-> 70]

SettingsDoc(id, body) ==
  [k \in SettingsFields \cup {"_id"} |->
     IF k = "_id" THEN id
     ELSE IF Has(body, k) THEN body[k] ELSE SettingsDefaults[k]]

\* What PUT /api/settings passes to findOneAndUpdate: `??` substitutes a
\* fixed value for an omitted companyName, currency, dateFormat and
\* itemsPerPage; an omitted defaultCostPercent is undefined and its key is
\* deleted from the update.
PutSettingsFallback ==
  [companyName |-> "", currency |-> "PKR", dateFormat |-> "DD/MM/YYYY",
   itemsPerPage |-> 10]

\* (variant: every omitted field is dropped from the update)
SettingsUpdate_dropOmitted(body) ==
  [k \in DOMAIN body \cap SettingsFields |-> body[k]]

SettingsUpdate(body) ==
  [k \in DOMAIN PutSettingsFallback
         \cup (IF Has(body, "defaultCostPercent") THEN {"defaultCostPercent"} ELSE {})
     |-> IF Has(body, k) THEN body[k] ELSE PutSettingsFallback[k]]

\* ------------------------------------------------------------ seeding data
defaultBranches ==
  << [name |-> "D WATSON PWD", address |-> ""],
     [name |-> "D WATSON F6", address |-> ""],
     [name |-> "D WATSON GUJJAR KHAN", address |-> ""],
     [name |-> "D WATSON CHANDNI CHOWK", address |-> ""],
     [name |-> "D WATSON ATTOCK", address |-> ""],
     [name |-> "D WATSON GHORI TOWN", address |-> ""],
     [name |-> "D WATSON G 15", address |-> ""] >>

defaultCategories ==
  << [name |-> "MEDICINE NEUTRA", description |-> "Neutral medicine category", color |-> "primary"],
     [name |-> "MEDICINE AIMS", description |-> "AIMS medicine category", color |-> "success"],
     [name |-> "COSTMAIES", description |-> "Costmaies category", color |-> "info"] >>

\* Branch.insertMany: every default branch is valid, ids are consecutive
BranchInsertMany(coll, docs, first) ==
  coll \o [i \in 1..Len(docs) |-> BranchDoc(first + i - 1, docs[i])]

\* Category.insertMany (ordered): documents are written in order and the
\* first one the unique index rejects aborts the rest
RECURSIVE CategoryInsertMany(_, _, _)
CategoryInsertMany(coll, docs, first) ==
  IF docs = <<>> THEN coll
  ELSE IF NameTaken(coll, first, Head(docs).name) THEN coll
  ELSE CategoryInsertMany(Append(coll, CategoryDoc(first, Head(docs))), Tail(docs), first + 1)

\* --------------------------------------------------------------- requests
NoBody == [k \in {} |-> ""]

BranchBodies ==
  { [name |-> "A"], [name |-> ""], [address |-> "addr"] }

CategoryBodies ==
  { [name |-> "X"], [name |-> "MEDICINE AIMS"], [description |-> "d"] }

SaleBodies ==
  { [branchId |-> b, date |-> "2024-03-01", total |-> 500, costTotal |-> 300,
     profit |-> 200, category |-> "MEDICINE AIMS"] : b \in ReqIds }
  \cup { [date |-> "2024-03-01", total |-> 500], [branchId |-> 1, total |-> 500],
         [branchId |-> 1, date |-> "yesterday", total |-> 500],
         [branchId |-> 1, date |-> "2024-01-31T12:00:00Z"],
         [branchId |-> 2, date |-> "2024-03-01",
          items |-> << [sku |-> "P1", name |-> "Panadol", quantity |-> 2,
                        unitPrice |-> 100, cost |-> 50] >>,
          total |-> 500, costTotal |-> 300, profit |-> 200] }

SettingsBodies ==
  { NoBody, [currency |-> "USD"], [defaultCostPercent |-> 50],
    [companyName |-> "ACME", currency |-> "USD", dateFormat |-> "YYYY-MM-DD",
     itemsPerPage |-> 25, defaultCostPercent |-> 50] }

\* req.query of GET /api/sales
QueryParams ==
  [branchId : {1, 2, BadId},
   from : {"2024-01-01", "2024-01-31", "yesterday"},
   to : {"2024-01-31", "yesterday"}]

SaleQueries ==
  { [k \in keys |-> q[k]] : q \in QueryParams, keys \in SUBSET {"branchId", "from", "to"} }

\* the Accept header: no header (or an empty one), or a list of media
\* ranges with their q in tenths
NoAccept == <<>>
AcceptJson == << [type |-> "application/json", q |-> 10] >>

Range(type, q) == [type |-> type, q |-> q]

AcceptHeaders ==
  { NoAccept, AcceptJson,
    << Range("text/html", 10) >>,
    << Range("*/*", 10) >>,
    << Range("image/png", 10) >>,
    << Range("text/html", 10), Range("application/json", 10) >>,
    << Range("application/json", 10), Range("text/html", 10) >>,
    << Range("text/html", 5), Range("application/json", 10) >>,
    << Range("application/json", 5), Range("text/html", 10) >>,
    << Range("text/html", 10), Range("*/*", 8) >>,
    << Range("application/json", 10), Range("*/*", 8) >>,
    << Range("text/html", 0), Range("*/*", 10) >> }

\* req.accepts(types), as the accepts and negotiator packages compute it
Mime(type) ==
  CASE type = "html" -> "text/html"
    [] type = "json" -> "application/json"

\* specify: how specifically the range at position o of the header matches
\* the media type (6 for the type itself, 0 for */*)
Specify(mime, header, o) ==
  [o |-> o, q |-> header[o].q, s |-> IF header[o].type = mime THEN 6 ELSE 0]

\* getMediaTypePriority: the match with the largest (s, q, o); with no match
\* the priority is {o: -1, q: 0, s: 0}
getMediaTypePriority(mime, header) ==
  LET specs == { Specify(mime, header, o) :
                   o \in {i \in 1..Len(header) : header[i].type \in {mime, "*/*"}} }
               \cup { [o |-> 0, q |-> 0, s |-> 0] }
      Better(a, b) ==
        \/ a.s > b.s
        \/ a.s = b.s /\ a.q > b.q
        \/ a.s = b.s /\ a.q = b.q /\ a.o > b.o
  IN CHOOSE a \in specs : \A b \in specs \ {a} : Better(a, b)

\* compareSpecs: by q descending, then s descending, then o and i ascending
compareSpecs(a, i, b, j) ==
  \/ a.q > b.q
  \/ a.q = b.q /\ a.s > b.s
  \/ a.q = b.q /\ a.s = b.s /\ a.o < b.o
  \/ a.q = b.q /\ a.s = b.s /\ a.o = b.o /\ i < j

Accepts(header, types) ==
  IF header = NoAccept THEN types[1]
  ELSE LET priority(i) == getMediaTypePriority(Mime(types[i]), header)
           acceptable == {i \in 1..Len(types) : priority(i).q > 0}
       IN IF acceptable = {} THEN "false"
          ELSE types[CHOOSE i \in acceptable :
                       \A j \in acceptable \ {i} :
                         compareSpecs(priority(i), i, priority(j), j)]

\* a request of a client that asks for JSON
Request(route, id, body) ==
  [route |-> route, id |-> id, body |-> body, query |-> NoBody,
   accept |-> AcceptJson]

Query(route, query) ==
  [route |-> route, id |-> BadId, body |-> NoBody, query |-> query,
   accept |-> AcceptJson]

Requests ==
  { Request("GET /api/settings", BadId, NoBody) }
  \cup { Request("PUT /api/settings", BadId, b) : b \in SettingsBodies }
  \cup { Request("POST /api/branches", BadId, b) : b \in BranchBodies }
  \cup { Request("PUT /api/branches/:id", i, b) : i \in ReqIds, b \in BranchBodies }
  \cup { Request("DELETE /api/branches/:id", i, NoBody) : i \in ReqIds }
  \cup { Request("POST /api/categories", BadId, b) : b \in CategoryBodies }
  \cup { Request("PUT /api/categories/:id", i, b) : i \in ReqIds, b \in CategoryBodies }
  \cup { Request("DELETE /api/categories/:id", i, NoBody) : i \in ReqIds }
  \cup { Request("POST /api/sales", BadId, b) : b \in SaleBodies }
  \cup { Request("GET /api/branches", BadId, NoBody),
         Request("GET /api/categories", BadId, NoBody) }
  \cup { Query("GET /api/sales", q) : q \in SaleQueries }

\* the first storage call of each handler
FirstCall(route) ==
  CASE route = "GET /api/settings" -> "Settings.findOne"
    [] route = "PUT /api/settings" -> "Settings.findOneAndUpdate"
    [] route = "POST /api/branches" -> "Branch.create"
    [] route = "PUT /api/branches/:id" -> "Branch.findByIdAndUpdate"
    [] route = "DELETE /api/branches/:id" -> "Branch.findByIdAndDelete"
    [] route = "POST /api/categories" -> "Category.create"
    [] route = "PUT /api/categories/:id" -> "Category.findByIdAndUpdate"
    [] route = "DELETE /api/categories/:id" -> "Category.findByIdAndDelete"
    [] route = "POST /api/sales" -> "Sale.create"
    [] route = "GET /api/branches" -> "Branch.find"
    [] route = "GET /api/categories" -> "Category.find"
    [] route = "GET /api/sales" -> "Sale.find"

\* -------------------------------------------------------------- responses
NoResponse == [status |-> 0, type |-> "", body |-> NoBody]
\* res.status(status).json(body)
Json(status, body) == [status |-> status, type |-> "json", body |-> body]
\* res.send(html)
Html(status, body) == [status |-> status, type |-> "html", body |-> body]
Null == [null |-> TRUE]
Ok == [ok |-> TRUE]
Error(message) == [error |-> message]

\* ------------------------------------------------------------------ state
VARIABLES
  Branch, Category, Sale, Settings,  \* the four collections, in insertion order
  nextId,          \* per collection, the next ObjectId to generate
  running,         \* FALSE after process.exit(1)
  readyState,      \* mongoose.connection.readyState: 0 disconnected, 1 connected, 2 connecting
  openListener,    \* the 'open' listener is registered
  seedPc,          \* position of seedDefaultData
  branchCount, categoryCount,  \* its locals
  seedStarts,      \* calls of seedDefaultData in this process
  seedFrom,        \* what seedDefaultData found when it was called
  pc, req, res,    \* per request slot: next storage call, request, response
  sales,           \* per request slot: what Sale.find returned, before populate
  received, restarts, reconnects,  \* counters that bound the model
  entry,           \* the server file the process runs
  files            \* the request paths at which clientDir holds a file

store == <<Branch, Category, Sale, Settings, nextId>>
conn == <<running, readyState, openListener, reconnects>>
seed == <<seedPc, branchCount, categoryCount, seedStarts, seedFrom>>
http == <<pc, req, res, sales, received>>
vars == <<Branch, Category, Sale, Settings, nextId, running, readyState,
          openListener, seedPc, branchCount, categoryCount, seedStarts,
          seedFrom, pc, req, res, sales, received, restarts, reconnects,
          entry, files>>
deploy == <<entry, files>>

NoRequest == Request("", BadId, NoBody)

\* a process that has just been started
InitProcess ==
  /\ running = TRUE
  /\ readyState = 2
  /\ openListener = TRUE
  /\ seedPc = "notCalled"
  /\ branchCount = 0 /\ categoryCount = 0
  /\ seedStarts = 0
  /\ seedFrom = [Branch |-> <<>>, Category |-> <<>>]
  /\ pc = [p \in Procs |-> "idle"]
  /\ req = [p \in Procs |-> NoRequest]
  /\ res = [p \in Procs |-> NoResponse]
  /\ sales = [p \in Procs |-> <<>>]
  /\ received = 0 /\ restarts = 0 /\ reconnects = 0
  /\ entry = "src/unnamed/part_000"
  /\ files = {}

\* the first start, on an empty database
Init ==
  /\ Branch = <<>> /\ Category = <<>> /\ Sale = <<>> /\ Settings = <<>>
  /\ nextId = [Branch |-> 1, Category |-> 1, Sale |-> 1, Settings |-> 1]
  /\ InitProcess

\* ------------------------------------------------- connection and process
\* mongoose.connection.once('open', ...): the listener is removed when it
\* is called
\* (variant: registered with on, the listener stays)
once_on(registered) == registered

once(registered) == FALSE

\* the connection emits 'open': a registered listener calls seedDefaultData
EmitOpen ==
  IF openListener
  THEN /\ openListener' = once(openListener)
       /\ seedPc' = "Branch.estimatedDocumentCount"
       /\ seedStarts' = seedStarts + 1
       /\ seedFrom' = [Branch |-> Branch, Category |-> Category]
       /\ UNCHANGED <<branchCount, categoryCount>>
  ELSE UNCHANGED <<openListener, seed>>

\* mongoose.connect resolves
Connected ==
  /\ running /\ readyState = 2
  /\ readyState' = 1
  /\ EmitOpen
  /\ UNCHANGED <<store, running, reconnects, http, restarts, deploy>>

\* (variant: the rejection is logged and the process goes on)
ConnectFailed_log ==
  /\ running /\ readyState = 2
  /\ readyState' = 0
  /\ UNCHANGED <<store, running, openListener, reconnects, seed, http, restarts, deploy>>

\* mongoose.connect rejects: process.exit(1)
ConnectFailed ==
  /\ running /\ readyState = 2
  /\ running' = FALSE
  /\ readyState' = 0
  /\ UNCHANGED <<store, openListener, reconnects, seed, http, restarts, deploy>>

\* the connection is lost; storage calls are buffered until it is back
Disconnected ==
  /\ running /\ readyState = 1
  /\ reconnects < MaxReconnects
  /\ readyState' = 0
  /\ UNCHANGED <<store, running, openListener, reconnects, seed, http, restarts, deploy>>

\* the driver reconnects and the connection emits 'open' again
Reconnected ==
  /\ running /\ readyState = 0
  /\ readyState' = 1
  /\ reconnects' = reconnects + 1
  /\ EmitOpen
  /\ UNCHANGED <<store, running, http, restarts, deploy>>

\* the process is started again on the same database
Restart ==
  /\ restarts < MaxRestarts
  /\ restarts' = restarts + 1
  /\ running' = TRUE
  /\ readyState' = 2
  /\ openListener' = TRUE
  /\ seedPc' = "notCalled"
  /\ branchCount' = 0 /\ categoryCount' = 0
  /\ seedStarts' = 0
  /\ seedFrom' = [Branch |-> <<>>, Category |-> <<>>]
  /\ pc' = [p \in Procs |-> "idle"]
  /\ req' = [p \in Procs |-> NoRequest]
  /\ res' = [p \in Procs |-> NoResponse]
  /\ sales' = [p \in Procs |-> <<>>]
  /\ UNCHANGED <<store, received, reconnects, deploy>>

\* a storage call is served only while the connection is up
Up == running /\ readyState = 1

\* --------------------------------------------------------- seedDefaultData
\* (variant: the branches are inserted whatever the count)
AfterBranchCount_always(count) == "Branch.insertMany"

\* (variant: a populated Branch collection ends the routine)
AfterBranchCount_return(count) ==
  IF count = 0 THEN "Branch.insertMany" ELSE "done"

\* if (branchCount === 0) { ... insertMany ... } else { skip }
AfterBranchCount(count) ==
  IF count = 0 THEN "Branch.insertMany" ELSE "Category.estimatedDocumentCount"

\* if (categoryCount === 0) { ... insertMany ... } else { skip }
AfterCategoryCount(count) ==
  IF count = 0 THEN "Category.insertMany" ELSE "done"

SeedCountBranches ==
  /\ Up /\ seedPc = "Branch.estimatedDocumentCount"
  /\ branchCount' = Len(Branch)
  /\ seedPc' = AfterBranchCount(branchCount')
  /\ UNCHANGED <<store, conn, categoryCount, seedStarts, seedFrom, http, restarts, deploy>>

SeedInsertBranches ==
  /\ Up /\ seedPc = "Branch.insertMany"
  /\ Branch' = BranchInsertMany(Branch, defaultBranches, nextId.Branch)
  /\ nextId' = [nextId EXCEPT !.Branch = @ + Len(defaultBranches)]
  /\ seedPc' = "Category.estimatedDocumentCount"
  /\ UNCHANGED <<Category, Sale, Settings, conn, branchCount, categoryCount,
                 seedStarts, seedFrom, http, restarts, deploy>>

SeedCountCategories ==
  /\ Up /\ seedPc = "Category.estimatedDocumentCount"
  /\ categoryCount' = Len(Category)
  /\ seedPc' = AfterCategoryCount(categoryCount')
  /\ UNCHANGED <<store, conn, branchCount, seedStarts, seedFrom, http, restarts, deploy>>

\* a rejected insertMany is caught by the caller's .catch and only logged
SeedInsertCategories ==
  /\ Up /\ seedPc = "Category.insertMany"
  /\ Category' = CategoryInsertMany(Category, defaultCategories, nextId.Category)
  /\ nextId' = [nextId EXCEPT !.Category = @ + Len(defaultCategories)]
  /\ seedPc' = IF Len(Category') = Len(Category) + Len(defaultCategories)
               THEN "done" ELSE "failed"
  /\ UNCHANGED <<Branch, Sale, Settings, conn, branchCount, categoryCount,
                 seedStarts, seedFrom, http, restarts, deploy>>

\* ------------------------------------------------------------ the router
\* the two server files of the repository
Entries == {"src/unnamed/part_000", "src/server/index.js"}

\* the layers of the router, in the order the file registers them
Layers(file) ==
  IF file = "src/unnamed/part_000"
  THEN << "GET /api/health", "GET /api/settings", "PUT /api/settings",
          "GET /api/branches", "POST /api/branches", "PUT /api/branches/:id",
          "DELETE /api/branches/:id", "GET /api/categories",
          "POST /api/categories", "PUT /api/categories/:id",
          "DELETE /api/categories/:id", "GET /api/sales", "POST /api/sales",
          "GET /api/*", "express.static" >>
  ELSE << "express.static", "GET /api/health", "GET /api/settings",
          "PUT /api/settings", "GET /api/branches", "POST /api/branches",
          "PUT /api/branches/:id", "DELETE /api/branches/:id",
          "GET /api/sales", "POST /api/sales" >>

\* the method and the path of a request line
Method(route) ==
  CASE route \in {"PUT /api/settings", "PUT /api/branches/:id",
                  "PUT /api/categories/:id"} -> "PUT"
    [] route \in {"POST /api/branches", "POST /api/categories",
                  "POST /api/sales"} -> "POST"
    [] route \in {"DELETE /api/branches/:id", "DELETE /api/categories/:id"} -> "DELETE"
    [] OTHER -> "GET"

Path(route) ==
  CASE route = "GET /api/health" -> "/api/health"
    [] route \in {"GET /api/settings", "PUT /api/settings"} -> "/api/settings"
    [] route \in {"GET /api/branches", "POST /api/branches"} -> "/api/branches"
    [] route \in {"PUT /api/branches/:id", "DELETE /api/branches/:id"} -> "/api/branches/:id"
    [] route \in {"GET /api/categories", "POST /api/categories"} -> "/api/categories"
    [] route \in {"PUT /api/categories/:id", "DELETE /api/categories/:id"} -> "/api/categories/:id"
    [] route \in {"GET /api/sales", "POST /api/sales"} -> "/api/sales"
    [] route = "GET /api/unknown" -> "/api/unknown"
    [] route = "GET /index.html" -> "/index.html"

\* express.static answers a GET whose path is a file of clientDir and
\* passes every other request on; a route answers its own request line
Matches(layer, r) ==
  CASE layer = "express.static" -> Method(r.route) = "GET" /\ Path(r.route) \in files
    [] layer = "GET /api/*" -> Method(r.route) = "GET" /\ Path(r.route) # "/index.html"
    [] OTHER -> layer = r.route

\* the first layer that matches answers; when none does, express answers 404
Dispatch(r) ==
  LET hits == {i \in 1..Len(Layers(entry)) : Matches(Layers(entry)[i], r)} IN
    IF hits = {} THEN "finalhandler"
    ELSE Layers(entry)[CHOOSE i \in hits : \A j \in hits : i <= j]

\* the layers that answer without a storage call
Synchronous == {"GET /api/health", "GET /api/*", "express.static", "finalhandler"}

HealthData ==
  IF entry = "src/unnamed/part_000"
  THEN [ok |-> TRUE,
        mongodb |-> [connected |-> readyState = 1,
                     state |-> <<"disconnected", "connected", "connecting">>[readyState + 1]]]
  ELSE Ok

\* res.sendFile of express.static
File(path) == [status |-> 200, type |-> "file", body |-> [file |-> path]]

Answer(layer, r) ==
  CASE layer = "GET /api/health" -> Json(200, HealthData)
    [] layer = "GET /api/*" ->
         Json(404, [error |-> "API endpoint not found", path |-> Path(r.route)])
    [] layer = "express.static" -> File(Path(r.route))
    [] layer = "finalhandler" -> Html(404, [cannot |-> r.route])

\* ----------------------------------------------------------- the handlers
\* a request is answered by a layer that awaits nothing
Serve(p, r, max) ==
  /\ running /\ pc[p] = "idle"
  /\ \A q \in 1..(p - 1) : pc[q] # "idle"
  /\ received < max
  /\ Dispatch(r) \in Synchronous
  /\ received' = received + 1
  /\ req' = [req EXCEPT ![p] = r]
  /\ res' = [res EXCEPT ![p] = Answer(Dispatch(r), r)]
  /\ UNCHANGED <<store, conn, seed, pc, sales, restarts, deploy>>

\* express dispatches a request to its handler, which runs up to its first
\* await; the request takes the lowest free slot (slots are interchangeable)
Receive(p, r, max) ==
  /\ running /\ pc[p] = "idle"
  /\ \A q \in 1..(p - 1) : pc[q] # "idle"
  /\ received < max
  /\ Dispatch(r) \notin Synchronous
  /\ received' = received + 1
  /\ pc' = [pc EXCEPT ![p] = FirstCall(Dispatch(r))]
  /\ req' = [req EXCEPT ![p] = r]
  /\ res' = [res EXCEPT ![p] = NoResponse]
  /\ UNCHANGED <<store, conn, seed, sales, restarts, deploy>>

Respond(p, r) ==
  /\ res' = [res EXCEPT ![p] = r]
  /\ pc' = [pc EXCEPT ![p] = "idle"]
  /\ sales' = [sales EXCEPT ![p] = <<>>]
  /\ UNCHANGED <<req, received>>

At(p, call) == Up /\ pc[p] = call

\* the table of the five settings fields that GET /api/settings renders
SettingsPage(settings) ==
  [companyName |-> settings.companyName,
   currency |-> settings.currency,
   dateFormat |-> settings.dateFormat,
   itemsPerPage |-> IF settings.itemsPerPage = 0 THEN 10 ELSE settings.itemsPerPage,
   defaultCostPercent |-> settings.defaultCostPercent]

\* the end of GET /api/settings: wantsHtml, then res.send or res.json
SendSettings(p, settings) ==
  Respond(p, IF Accepts(req[p].accept, <<"html", "json">>) = "html"
             THEN Html(200, SettingsPage(settings))
             ELSE Json(200, settings))

\* (variant: the document is created whatever findOne returned)
GetSettingsFindOne_create(p) ==
  /\ At(p, "Settings.findOne")
  /\ pc' = [pc EXCEPT ![p] = "Settings.create"]
  /\ UNCHANGED <<req, res, sales, received>>
  /\ UNCHANGED <<store, conn, seed, restarts, deploy>>

\* app.get('/api/settings'): Settings.findOne()
GetSettingsFindOne(p) ==
  /\ At(p, "Settings.findOne")
  /\ IF Len(Settings) = 0
     THEN /\ pc' = [pc EXCEPT ![p] = "Settings.create"]
          /\ UNCHANGED <<req, res, sales, received>>
     ELSE SendSettings(p, Settings[1])
  /\ UNCHANGED <<store, conn, seed, restarts, deploy>>

\* app.get('/api/settings'): Settings.create({})
GetSettingsCreate(p) ==
  /\ At(p, "Settings.create")
  /\ LET doc == SettingsDoc(nextId.Settings, NoBody) IN
       /\ Settings' = Append(Settings, doc)
       /\ SendSettings(p, doc)
  /\ nextId' = [nextId EXCEPT !.Settings = @ + 1]
  /\ UNCHANGED <<Branch, Category, Sale, conn, seed, restarts, deploy>>

\* app.put('/api/settings'): findOneAndUpdate({}, update, {new, upsert})
PutSettings(p) ==
  /\ At(p, "Settings.findOneAndUpdate")
  /\ LET update == SettingsUpdate(req[p].body) IN
       IF Len(Settings) = 0
       THEN LET doc == SettingsDoc(nextId.Settings, update) IN
              /\ Settings' = <<doc>>
              /\ nextId' = [nextId EXCEPT !.Settings = @ + 1]
              /\ Respond(p, Json(200, doc))
       ELSE LET doc == Merge(Settings[1], update, SettingsFields) IN
              /\ Settings' = [Settings EXCEPT ![1] = doc]
              /\ UNCHANGED nextId
              /\ Respond(p, Json(200, doc))
  /\ UNCHANGED <<Branch, Category, Sale, conn, seed, restarts, deploy>>

\* app.post('/api/branches'): Branch.create(req.body)
PostBranch(p) ==
  /\ At(p, "Branch.create")
  /\ IF BranchValid(req[p].body)
     THEN LET doc == BranchDoc(nextId.Branch, req[p].body) IN
            /\ Branch' = Append(Branch, doc)
            /\ nextId' = [nextId EXCEPT !.Branch = @ + 1]
            /\ Respond(p, Json(201, doc))
     ELSE /\ UNCHANGED <<Branch, nextId>>
          /\ Respond(p, Json(400, Error("ValidationError")))
  /\ UNCHANGED <<Category, Sale, Settings, conn, seed, restarts, deploy>>

\* (variant: the update is an upsert)
PutBranch_upsert(p) ==
  /\ At(p, "Branch.findByIdAndUpdate")
  /\ LET id == req[p].id
         blank == [_id |-> id, name |-> "", address |-> "", phone |-> "", email |-> ""]
         doc == Merge(IF Exists(Branch, id) THEN FindById(Branch, id) ELSE blank,
                      req[p].body, BranchFields)
     IN IF id = BadId
        THEN /\ UNCHANGED Branch
             /\ Respond(p, Json(400, Error("CastError")))
        ELSE /\ Branch' = IF Exists(Branch, id)
                          THEN [i \in 1..Len(Branch) |->
                                  IF Branch[i]._id = id THEN doc ELSE Branch[i]]
                          ELSE Append(Branch, doc)
             /\ Respond(p, Json(200, doc))
  /\ UNCHANGED <<Category, Sale, Settings, nextId, conn, seed, restarts, deploy>>

\* app.put('/api/branches/:id'): findByIdAndUpdate(id, body, {new: true});
\* update validators are off, so required is not checked
PutBranch(p) ==
  /\ At(p, "Branch.findByIdAndUpdate")
  /\ LET id == req[p].id IN
       IF id = BadId
       THEN /\ UNCHANGED Branch
            /\ Respond(p, Json(400, Error("CastError")))
       ELSE IF ~Exists(Branch, id)
       THEN /\ UNCHANGED Branch
            /\ Respond(p, Json(200, Null))
       ELSE LET doc == Merge(FindById(Branch, id), req[p].body, BranchFields) IN
              /\ Branch' = [i \in 1..Len(Branch) |->
                              IF Branch[i]._id = id THEN doc ELSE Branch[i]]
              /\ Respond(p, Json(200, doc))
  /\ UNCHANGED <<Category, Sale, Settings, nextId, conn, seed, restarts, deploy>>

\* app.delete('/api/branches/:id'): Branch.findByIdAndDelete(id)
DeleteBranchFindByIdAndDelete(p) ==
  /\ At(p, "Branch.findByIdAndDelete")
  /\ IF req[p].id = BadId
     THEN /\ UNCHANGED Branch
          /\ Respond(p, Json(400, Error("CastError")))
     ELSE /\ Branch' = Without(Branch, req[p].id)
          /\ pc' = [pc EXCEPT ![p] = "Sale.deleteMany"]
          /\ UNCHANGED <<req, res, sales, received>>
  /\ UNCHANGED <<Category, Sale, Settings, nextId, conn, seed, restarts, deploy>>

\* app.delete('/api/branches/:id'): Sale.deleteMany({ branchId: id })
DeleteBranchDeleteMany(p) ==
  /\ At(p, "Sale.deleteMany")
  /\ Sale' = SaleDeleteMany(Sale, req[p].id)
  /\ Respond(p, Json(200, Ok))
  /\ UNCHANGED <<Branch, Category, Settings, nextId, conn, seed, restarts, deploy>>

\* app.post('/api/categories'): Category.create(req.body)
PostCategory(p) ==
  /\ At(p, "Category.create")
  /\ IF ~CategoryValid(req[p].body)
     THEN /\ UNCHANGED <<Category, nextId>>
          /\ Respond(p, Json(400, Error("ValidationError")))
     ELSE IF NameTaken(Category, nextId.Category, req[p].body.name)
     THEN /\ UNCHANGED <<Category, nextId>>
          /\ Respond(p, Json(400, Error("E11000 duplicate key")))
     ELSE LET doc == CategoryDoc(nextId.Category, req[p].body) IN
            /\ Category' = Append(Category, doc)
            /\ nextId' = [nextId EXCEPT !.Category = @ + 1]
            /\ Respond(p, Json(201, doc))
  /\ UNCHANGED <<Branch, Sale, Settings, conn, seed, restarts, deploy>>

\* app.put('/api/categories/:id'): findByIdAndUpdate(id, body, {new: true})
PutCategory(p) ==
  /\ At(p, "Category.findByIdAndUpdate")
  /\ LET id == req[p].id
         body == req[p].body IN
       IF id = BadId
       THEN /\ UNCHANGED Category
            /\ Respond(p, Json(400, Error("CastError")))
       ELSE IF ~Exists(Category, id)
       THEN /\ UNCHANGED Category
            /\ Respond(p, Json(200, Null))
       ELSE IF Has(body, "name") /\ NameTaken(Category, id, body.name)
       THEN /\ UNCHANGED Category
            /\ Respond(p, Json(400, Error("E11000 duplicate key")))
       ELSE LET doc == Merge(FindById(Category, id), body, CategoryFields) IN
              /\ Category' = [i \in 1..Len(Category) |->
                                IF Category[i]._id = id THEN doc ELSE Category[i]]
              /\ Respond(p, Json(200, doc))
  /\ UNCHANGED <<Branch, Sale, Settings, nextId, conn, seed, restarts, deploy>>

\* (variant: deleting a category also deletes the sales labelled with it)
DeleteCategory_cascade(p) ==
  /\ At(p, "Category.findByIdAndDelete")
  /\ IF req[p].id = BadId
     THEN /\ UNCHANGED <<Category, Sale>>
          /\ Respond(p, Json(400, Error("CastError")))
     ELSE /\ Category' = Without(Category, req[p].id)
          /\ Sale' = SelectSeq(Sale, LAMBDA s :
                        \A i \in 1..Len(Category) :
                          Category[i]._id = req[p].id => s.category # Category[i].name)
          /\ Respond(p, Json(200, Ok))
  /\ UNCHANGED <<Branch, Settings, nextId, conn, seed, restarts, deploy>>

\* app.delete('/api/categories/:id'): Category.findByIdAndDelete(id)
DeleteCategory(p) ==
  /\ At(p, "Category.findByIdAndDelete")
  /\ IF req[p].id = BadId
     THEN /\ UNCHANGED Category
          /\ Respond(p, Json(400, Error("CastError")))
     ELSE /\ Category' = Without(Category, req[p].id)
          /\ Respond(p, Json(200, Ok))
  /\ UNCHANGED <<Branch, Sale, Settings, nextId, conn, seed, restarts, deploy>>

\* app.post('/api/sales'): Sale.create(req.body)
PostSale(p) ==
  /\ At(p, "Sale.create")
  /\ IF SaleValid(req[p].body)
     THEN LET doc == SaleDoc(nextId.Sale, req[p].body) IN
            /\ Sale' = Append(Sale, doc)
            /\ nextId' = [nextId EXCEPT !.Sale = @ + 1]
            /\ Respond(p, Json(201, doc))
     ELSE /\ UNCHANGED <<Sale, nextId>>
          /\ Respond(p, Json(400, Error("ValidationError")))
  /\ UNCHANGED <<Branch, Category, Settings, conn, seed, restarts, deploy>>

\* app.get('/api/branches'): Branch.find().sort({ createdAt: -1 })
GetBranches(p) ==
  /\ At(p, "Branch.find")
  /\ Respond(p, Json(200, SortCreatedAtDesc(Branch)))
  /\ UNCHANGED <<store, conn, seed, restarts, deploy>>

\* app.get('/api/categories'): Category.find().sort({ createdAt: -1 })
GetCategories(p) ==
  /\ At(p, "Category.find")
  /\ Respond(p, Json(200, SortCreatedAtDesc(Category)))
  /\ UNCHANGED <<store, conn, seed, restarts, deploy>>

\* app.get('/api/sales'): Sale.find(filter).sort({ date: -1 }); with no
\* document found populate has nothing to resolve and issues no query
GetSalesFind(p) ==
  /\ At(p, "Sale.find")
  /\ IF ~QueryValid(req[p].query)
     THEN Respond(p, Json(500, Error("CastError")))
     ELSE \E found \in SortDateDesc(SaleFind(Sale, req[p].query)) :
            IF found = <<>>
            THEN Respond(p, Json(200, found))
            ELSE /\ sales' = [sales EXCEPT ![p] = found]
                 /\ pc' = [pc EXCEPT ![p] = "populate"]
                 /\ UNCHANGED <<req, res, received>>
  /\ UNCHANGED <<store, conn, seed, restarts, deploy>>

\* (variant: the resolved branch name is saved into the Sale documents)
GetSalesPopulate_save(p) ==
  /\ At(p, "populate")
  /\ Respond(p, Json(200, Populate(sales[p], Branch)))
  /\ Sale' = [i \in 1..Len(Sale) |->
               [k \in DOMAIN Sale[i] \cup {"branchName"} |->
                  IF k # "branchName" THEN Sale[i][k]
                  ELSE IF Exists(Branch, Sale[i].branchId)
                       THEN FindById(Branch, Sale[i].branchId).name
                       ELSE ""]]
  /\ UNCHANGED <<Branch, Category, Settings, nextId, conn, seed, restarts, deploy>>

\* app.get('/api/sales'): .populate('branchId', 'name'), then res.json
GetSalesPopulate(p) ==
  /\ At(p, "populate")
  /\ Respond(p, Json(200, Populate(sales[p], Branch)))
  /\ UNCHANGED <<store, conn, seed, restarts, deploy>>

\* the status the catch block of a route's handler answers with; the
\* handler of GET /api/settings has no try/catch
CatchStatus(route) ==
  CASE route \in {"GET /api/branches", "GET /api/categories", "GET /api/sales"} -> 500
    [] route = "GET /api/settings" -> 0
    [] OTHER -> 400

\* the storage call a handler awaits rejects with a storage error (the
\* server is unreachable, the operation times out) and has written
\* nothing.  With a catch block the handler answers CatchStatus.  Without
\* one the promise express was given rejects unhandled: nothing answers
\* the request, and the process goes on or exits, as the runtime decides.
StorageError(p) ==
  /\ running /\ pc[p] \notin {"idle", "rejected"}
  /\ IF CatchStatus(req[p].route) = 0
     THEN /\ pc' = [pc EXCEPT ![p] = "rejected"]
          /\ running' \in BOOLEAN
          /\ UNCHANGED <<req, res, sales, received>>
     ELSE /\ Respond(p, Json(CatchStatus(req[p].route), Error("StorageError")))
          /\ UNCHANGED running
  /\ UNCHANGED <<store, readyState, openListener, reconnects, seed, restarts, deploy>>

\* ------------------------------------------------------ the specifications
SettingsRoutes == {"GET /api/settings", "PUT /api/settings"}
BranchRoutes ==
  {"POST /api/branches", "PUT /api/branches/:id", "DELETE /api/branches/:id",
   "POST /api/sales"}
CategoryRoutes ==
  {"POST /api/categories", "PUT /api/categories/:id", "DELETE /api/categories/:id"}
SeedRoutes == {"POST /api/branches", "POST /api/categories"}

Of(routes) == {r \in Requests : r.route \in routes}

\* the whole program
Next ==
  \/ Connected
  \/ ConnectFailed
  \/ Disconnected
  \/ Reconnected
  \/ Restart
  \/ SeedCountBranches
  \/ SeedInsertBranches
  \/ SeedCountCategories
  \/ SeedInsertCategories
  \/ \E p \in Procs, r \in Requests : Receive(p, r, MaxRequests)
  \/ \E p \in Procs : GetSettingsFindOne(p)
  \/ \E p \in Procs : GetSettingsCreate(p)
  \/ \E p \in Procs : PutSettings(p)
  \/ \E p \in Procs : PostBranch(p)
  \/ \E p \in Procs : PutBranch(p)
  \/ \E p \in Procs : DeleteBranchFindByIdAndDelete(p)
  \/ \E p \in Procs : DeleteBranchDeleteMany(p)
  \/ \E p \in Procs : PostCategory(p)
  \/ \E p \in Procs : PutCategory(p)
  \/ \E p \in Procs : DeleteCategory(p)
  \/ \E p \in Procs : PostSale(p)
  \/ \E p \in Procs : GetBranches(p)
  \/ \E p \in Procs : GetCategories(p)
  \/ \E p \in Procs : GetSalesFind(p)
  \/ \E p \in Procs : GetSalesPopulate(p)
  \/ \E p \in Procs : StorageError(p)

Spec == Init /\ [][Next]_vars

\* concurrent requests to the Settings resource
SettingsNext ==
  \/ Connected
  \/ \E p \in Procs, r \in Of(SettingsRoutes) : Receive(p, r, MaxSettingsRequests)
  \/ \E p \in Procs : GetSettingsFindOne(p)
  \/ \E p \in Procs : GetSettingsCreate(p)
  \/ \E p \in Procs : PutSettings(p)

SettingsSpec == Init /\ [][SettingsNext]_vars

\* seeding and concurrent requests to the Category resource
CategoryNext ==
  \/ Connected
  \/ SeedCountBranches
  \/ SeedInsertBranches
  \/ SeedCountCategories
  \/ SeedInsertCategories
  \/ \E p \in Procs, r \in Of(CategoryRoutes) : Receive(p, r, MaxRequests)
  \/ \E p \in Procs : PostCategory(p)
  \/ \E p \in Procs : PutCategory(p)
  \/ \E p \in Procs : DeleteCategory(p)

CategorySpec == Init /\ [][CategoryNext]_vars

\* the connection events, restarts, seeding and concurrent creations
SeedNext ==
  \/ Connected
  \/ ConnectFailed
  \/ Disconnected
  \/ Reconnected
  \/ Restart
  \/ SeedCountBranches
  \/ SeedInsertBranches
  \/ SeedCountCategories
  \/ SeedInsertCategories
  \/ \E p \in Procs, r \in Of(SeedRoutes) : Receive(p, r, MaxSeedRequests)
  \/ \E p \in Procs : PostBranch(p)
  \/ \E p \in Procs : PostCategory(p)

SeedSpec == Init /\ [][SeedNext]_vars

\* requests run one at a time and never while seedDefaultData is running
SeedActive ==
  seedPc \in {"Branch.estimatedDocumentCount", "Branch.insertMany",
              "Category.estimatedDocumentCount", "Category.insertMany"}

OneAtATime ==
  Cardinality({p \in Procs : pc[p] # "idle"}) + (IF SeedActive THEN 1 ELSE 0) <= 1

\* databases a process can be started on: each is what earlier POSTs (or an
\* interrupted earlier run) leave behind
b1 == BranchDoc(1, [name |-> "A"])
b2 == BranchDoc(2, [name |-> "A", address |-> "addr"])
sale(id, branchId) ==
  SaleDoc(id, [branchId |-> branchId, date |-> "2024-03-01", total |-> 500,
               costTotal |-> 300, profit |-> 200, category |-> "MEDICINE AIMS"])
c1 == CategoryDoc(1, [name |-> "X"])

InitBranch ==
  /\ \/ /\ Branch = <<>> /\ Sale = <<>>
        /\ nextId = [Branch |-> 1, Category |-> 1, Sale |-> 1, Settings |-> 1]
     \/ /\ Branch = <<b1, b2>> /\ Sale = <<sale(1, 1), sale(2, 2), sale(3, 1)>>
        /\ nextId = [Branch |-> 3, Category |-> 1, Sale |-> 4, Settings |-> 1]
  /\ Category = <<>> /\ Settings = <<>>
  /\ InitProcess

BranchSerialNext ==
  \/ Connected /\ OneAtATime'
  \/ SeedCountBranches
  \/ SeedInsertBranches
  \/ SeedCountCategories
  \/ SeedInsertCategories
  \/ \E p \in Procs, r \in Of(BranchRoutes) : Receive(p, r, MaxSerialRequests) /\ OneAtATime'
  \/ \E p \in Procs : PostBranch(p)
  \/ \E p \in Procs : PutBranch(p)
  \/ \E p \in Procs : DeleteBranchFindByIdAndDelete(p)
  \/ \E p \in Procs : DeleteBranchDeleteMany(p)
  \/ \E p \in Procs : PostSale(p)

BranchSerialSpec == InitBranch /\ [][BranchSerialNext]_vars

InitSeed ==
  /\ Branch \in {<<>>, <<b1>>}
  /\ Category \in {<<>>, <<c1>>}
  /\ Sale = <<>> /\ Settings = <<>>
  /\ nextId = [Branch |-> Len(Branch) + 1, Category |-> Len(Category) + 1,
               Sale |-> 1, Settings |-> 1]
  /\ InitProcess

SeedSerialNext ==
  \/ Connected /\ OneAtATime'
  \/ Restart
  \/ SeedCountBranches
  \/ SeedInsertBranches
  \/ SeedCountCategories
  \/ SeedInsertCategories
  \/ \E p \in Procs, r \in Of(SeedRoutes) : Receive(p, r, MaxSerialRequests) /\ OneAtATime'
  \/ \E p \in Procs : PostBranch(p)
  \/ \E p \in Procs : PostCategory(p)

SeedSerialSpec == InitSeed /\ [][SeedSerialNext]_vars

\* every route, one request at a time, on a store with branches and sales
ApiRequests ==
  {r \in Requests :
     r.route = "GET /api/sales" => r.query \in {NoBody, [branchId |-> 1]}}

ApiSerialNext ==
  \/ Connected /\ OneAtATime'
  \/ SeedCountBranches
  \/ SeedInsertBranches
  \/ SeedCountCategories
  \/ SeedInsertCategories
  \/ \E p \in Procs, r \in ApiRequests : Receive(p, r, MaxApiRequests) /\ OneAtATime'
  \/ \E p \in Procs : GetSettingsFindOne(p)
  \/ \E p \in Procs : GetSettingsCreate(p)
  \/ \E p \in Procs : PutSettings(p)
  \/ \E p \in Procs : GetBranches(p)
  \/ \E p \in Procs : PostBranch(p)
  \/ \E p \in Procs : PutBranch(p)
  \/ \E p \in Procs : DeleteBranchFindByIdAndDelete(p)
  \/ \E p \in Procs : DeleteBranchDeleteMany(p)
  \/ \E p \in Procs : GetCategories(p)
  \/ \E p \in Procs : PostCategory(p)
  \/ \E p \in Procs : PutCategory(p)
  \/ \E p \in Procs : DeleteCategory(p)
  \/ \E p \in Procs : GetSalesFind(p)
  \/ \E p \in Procs : GetSalesPopulate(p)
  \/ \E p \in Procs : PostSale(p)

ApiSerialSpec == InitBranch /\ [][ApiSerialNext]_vars

\* the same, with storage calls that may fail
ApiFaultNext ==
  \/ ApiSerialNext
  \/ \E p \in Procs : StorageError(p)

ApiFaultSpec == InitBranch /\ [][ApiFaultNext]_vars

\* either server file, started next to a clientDir that may hold files at
\* the paths of API routes; requests run one at a time
StaticPaths == {"/api/health", "/api/branches", "/index.html"}

InitRoute ==
  /\ Branch = <<b1, b2>> /\ Sale = <<sale(1, 1), sale(2, 2), sale(3, 1)>>
  /\ Category = <<c1>> /\ Settings = <<>>
  /\ nextId = [Branch |-> 3, Category |-> 2, Sale |-> 4, Settings |-> 1]
  /\ running = TRUE
  /\ readyState = 2
  /\ entry \in Entries
  /\ files \in SUBSET StaticPaths
  /\ openListener = (entry = "src/unnamed/part_000")
  /\ seedPc = "notCalled"
  /\ branchCount = 0 /\ categoryCount = 0
  /\ seedStarts = 0
  /\ seedFrom = [Branch |-> <<>>, Category |-> <<>>]
  /\ pc = [p \in Procs |-> "idle"]
  /\ req = [p \in Procs |-> NoRequest]
  /\ res = [p \in Procs |-> NoResponse]
  /\ sales = [p \in Procs |-> <<>>]
  /\ received = 0 /\ restarts = 0 /\ reconnects = 0

RouteRequests ==
  { Request(route, BadId, NoBody) :
      route \in {"GET /api/health", "GET /api/settings", "GET /api/branches",
                 "GET /api/categories", "GET /api/sales", "GET /api/unknown",
                 "GET /index.html"} }
  \cup { Request("POST /api/branches", BadId, [name |-> "A"]) }

RouteNext ==
  \/ Connected /\ OneAtATime'
  \/ ConnectFailed
  \/ SeedCountBranches
  \/ SeedCountCategories
  \/ \E p \in Procs, r \in RouteRequests : Serve(p, r, MaxRouteRequests) /\ OneAtATime'
  \/ \E p \in Procs, r \in RouteRequests : Receive(p, r, MaxRouteRequests) /\ OneAtATime'
  \/ \E p \in Procs : GetSettingsFindOne(p)
  \/ \E p \in Procs : GetSettingsCreate(p)
  \/ \E p \in Procs : GetBranches(p)
  \/ \E p \in Procs : PostBranch(p)
  \/ \E p \in Procs : GetCategories(p)
  \/ \E p \in Procs : GetSalesFind(p)
  \/ \E p \in Procs : GetSalesPopulate(p)

RouteSpec == InitRoute /\ [][RouteNext]_vars

\* DELETE /api/branches/:id next to concurrent POST /api/sales requests that
\* name a branch which exists when they are received
CascadeRequests ==
  { r \in Of({"POST /api/sales"}) :
      Has(r.body, "branchId") /\ Exists(Branch, r.body.branchId) }
  \cup Of({"DELETE /api/branches/:id"})

CascadeNext ==
  \/ Connected
  \/ SeedCountBranches
  \/ SeedInsertBranches
  \/ SeedCountCategories
  \/ SeedInsertCategories
  \/ \E p \in Procs, r \in CascadeRequests : Receive(p, r, MaxCascadeRequests)
  \/ \E p \in Procs : DeleteBranchFindByIdAndDelete(p)
  \/ \E p \in Procs : DeleteBranchDeleteMany(p)
  \/ \E p \in Procs : PostSale(p)

CascadeSpec == InitBranch /\ [][CascadeNext]_vars

\* the GET routes of the API asked with several Accept headers, one request
\* at a time
Accepting(r, header) == [r EXCEPT !.accept = header]

AcceptRequests ==
  { Accepting(Request("GET /api/settings", BadId, NoBody), h) : h \in AcceptHeaders }
  \cup { Accepting(Request(route, BadId, NoBody), h) :
           route \in {"GET /api/branches", "GET /api/categories", "GET /api/sales"},
           h \in {NoAccept, << Range("text/html", 10) >>,
                  << Range("text/html", 10), Range("*/*", 8) >>} }

AcceptNext ==
  \/ Connected /\ OneAtATime'
  \/ SeedCountBranches
  \/ SeedInsertBranches
  \/ SeedCountCategories
  \/ SeedInsertCategories
  \/ \E p \in Procs, r \in AcceptRequests : Receive(p, r, MaxAcceptRequests) /\ OneAtATime'
  \/ \E p \in Procs : GetSettingsFindOne(p)
  \/ \E p \in Procs : GetSettingsCreate(p)
  \/ \E p \in Procs : GetBranches(p)
  \/ \E p \in Procs : GetCategories(p)
  \/ \E p \in Procs : GetSalesFind(p)
  \/ \E p \in Procs : GetSalesPopulate(p)

AcceptSpec == InitBranch /\ [][AcceptNext]_vars

saleOn(id, branchId, date) ==
  SaleDoc(id, [branchId |-> branchId, date |-> date, total |-> 500,
               costTotal |-> 300, profit |-> 200, category |-> "MEDICINE AIMS"])

salesSample ==
  << saleOn(1, 1, "2024-01-31"), saleOn(2, 2, "2024-03-01"),
     saleOn(3, 1, "2024-01-01"), saleOn(4, 1, "2024-01-31T12:00:00Z"),
     saleOn(5, 2, "2024-01-31") >>

InitSales ==
  /\ Branch = <<b1, b2>>
  /\ \E n \in 0..Len(salesSample) : Sale = SubSeq(salesSample, 1, n)
  /\ Category = <<>> /\ Settings = <<>>
  /\ nextId = [Branch |-> 3, Category |-> 1, Sale |-> Len(Sale) + 1, Settings |-> 1]
  /\ InitProcess

SaleRoutes == {"GET /api/sales", "POST /api/sales"}

SaleListNext ==
  \/ Connected /\ OneAtATime'
  \/ SeedCountBranches
  \/ SeedCountCategories
  \/ SeedInsertCategories
  \/ \E p \in Procs, r \in Of(SaleRoutes) : Receive(p, r, MaxListRequests) /\ OneAtATime'
  \/ \E p \in Procs : GetSalesFind(p)
  \/ \E p \in Procs : GetSalesPopulate(p)
  \/ \E p \in Procs : PostSale(p)

SaleListSpec == InitSales /\ [][SaleListNext]_vars

\* ------------------------------------------------------------ properties
Collections == <<Branch, Category, Sale, Settings>>

\* slot p completes the storage call `call` in this step and responds
Completes(p, call) == pc[p] = call /\ pc'[p] = "idle" /\ res'[p].status # 0

Names(coll) == [i \in 1..Len(coll) |-> coll[i].name]

Refers(coll, id) == \E i \in 1..Len(coll) : coll[i].branchId = id

\* C1: under every interleaving of GET and PUT /api/settings the Settings
\* collection never holds more than one document.
C1_AtMostOneSettings == Len(Settings) <= 1

\* C2: a DELETE /api/branches/:id that completes answers {ok:true} and
\* leaves neither the Branch nor any Sale with that branchId; a DELETE of
\* an id that no Branch has and no Sale refers to (a repeated DELETE)
\* answers {ok:true} and changes no collection.
C2_DeleteBranchCascade ==
  [][\A p \in Procs :
       /\ Completes(p, "Sale.deleteMany") =>
            /\ res'[p] = Json(200, Ok)
            /\ ~Exists(Branch', req[p].id)
            /\ ~Refers(Sale', req[p].id)
       /\ ( /\ pc[p] \in {"Branch.findByIdAndDelete", "Sale.deleteMany"}
            /\ pc'[p] # pc[p]
            /\ req[p].id # BadId
            /\ ~Exists(Branch, req[p].id)
            /\ ~Refers(Sale, req[p].id) ) =>
            /\ Collections' = Collections
            /\ pc'[p] = "idle" => res'[p] = Json(200, Ok)
    ]_vars

\* branch 1 had two sales; the second of two requests, a DELETE of
\* branch 1 after the first had removed it, has answered {ok:true};
\* branch 2 and its sale are still there
C2_Witness ==
  /\ received = 2
  /\ req[1] = Request("DELETE /api/branches/:id", 1, NoBody)
  /\ res[1] = Json(200, Ok)
  /\ Ids(Branch) = {2}
  /\ Ids(Sale) = {2}
  /\ nextId.Sale = 4

\* C3: POST /api/sales with a well-formed branchId that identifies no
\* Branch fails with HTTP 400 and stores no Sale.
C3_UnknownBranchRejected ==
  [][\A p \in Procs :
       ( /\ Completes(p, "Sale.create")
         /\ Has(req[p].body, "branchId")
         /\ req[p].body.branchId # BadId
         /\ ~Exists(Branch, req[p].body.branchId) ) =>
         /\ res'[p].status = 400
         /\ Sale' = Sale
    ]_vars

\* C4: a PUT /api/settings whose body has only currency changes the
\* stored currency and leaves the other four fields as stored.
C4_PutCurrencyOnly ==
  [][\A p \in Procs :
       ( /\ Completes(p, "Settings.findOneAndUpdate")
         /\ DOMAIN req[p].body = {"currency"}
         /\ Len(Settings) > 0 ) =>
         /\ Settings'[1].currency = req[p].body.currency
         /\ \A k \in SettingsFields \ {"currency"} : Settings'[1][k] = Settings[1][k]
    ]_vars

\* C5: PUT /api/settings on a stored document leaves defaultCostPercent
\* as stored when the body omits it, and writes '', 'PKR', 'DD/MM/YYYY',
\* 10 for an omitted companyName, currency, dateFormat, itemsPerPage.
C5_OmittedFields ==
  [][\A p \in Procs :
       ( Completes(p, "Settings.findOneAndUpdate") /\ Len(Settings) > 0 ) =>
         LET body == req[p].body
             old == Settings[1]
             new == Settings'[1]
         IN /\ res'[p].status = 200
            /\ ~Has(body, "defaultCostPercent") =>
                 new.defaultCostPercent = old.defaultCostPercent
            /\ ~Has(body, "companyName") => new.companyName = ""
            /\ ~Has(body, "currency") => new.currency = "PKR"
            /\ ~Has(body, "dateFormat") => new.dateFormat = "DD/MM/YYYY"
            /\ ~Has(body, "itemsPerPage") => new.itemsPerPage = 10
            /\ \A k \in DOMAIN body \cap SettingsFields : new[k] = body[k]
    ]_vars

\* a PUT of all five fields was followed by a PUT of currency alone: the
\* stored defaultCostPercent is still 50, companyName is '' again
C5_Witness ==
  \E p, q \in Procs :
    /\ req[q].route = "PUT /api/settings" /\ res[q].status = 200
    /\ res[q].body.companyName = "ACME"
    /\ req[p] = Request("PUT /api/settings", BadId, [currency |-> "USD"])
    /\ res[p].status = 200
    /\ res[p].body.defaultCostPercent = 50
    /\ res[p].body.companyName = ""
    /\ res[p].body.itemsPerPage = 10
    /\ Settings = <<res[p].body>>

\* C6: no two Category records ever have the same name; a POST or PUT
\* that would give a second record an already-used name answers 400 and
\* leaves the Category collection unchanged.
C6_UniqueNames == \A i, j \in 1..Len(Category) : i # j => Category[i].name # Category[j].name

C6_CategoryNameUnique ==
  /\ []C6_UniqueNames
  /\ [][\A p \in Procs :
          /\ ( /\ Completes(p, "Category.create")
               /\ Has(req[p].body, "name")
               /\ \E i \in 1..Len(Category) : Category[i].name = req[p].body.name ) =>
               res'[p].status = 400 /\ Category' = Category
          /\ ( /\ Completes(p, "Category.findByIdAndUpdate")
               /\ Has(req[p].body, "name")
               /\ Exists(Category, req[p].id)
               /\ \E i \in 1..Len(Category) :
                    Category[i]._id # req[p].id /\ Category[i].name = req[p].body.name ) =>
               res'[p].status = 400 /\ Category' = Category
       ]_vars

\* seeding has stored 'MEDICINE AIMS', a POST of that name was refused and
\* a PUT that would rename another category to it was refused too
C6_Witness ==
  \E p, q \in Procs :
    /\ Names(Category) = Names(defaultCategories)
    /\ req[p] = Request("POST /api/categories", BadId, [name |-> "MEDICINE AIMS"])
    /\ res[p] = Json(400, Error("E11000 duplicate key"))
    /\ req[q] = Request("PUT /api/categories/:id", 1, [name |-> "MEDICINE AIMS"])
    /\ res[q] = Json(400, Error("E11000 duplicate key"))

\* C7: every stored Branch has a non-empty name.
C7_BranchNameNonEmpty == \A i \in 1..Len(Branch) : Branch[i].name # ""

\* C8: seedDefaultData run alone on empty Branch and Category collections
\* leaves exactly the 7 default branches and the 3 default categories; run
\* again on that store it changes no collection.
Seeded(b, c) ==
  /\ Names(b) = Names(defaultBranches)
  /\ \A i \in 1..Len(b) : b[i].address = ""
  /\ [i \in 1..Len(c) |-> [name |-> c[i].name, description |-> c[i].description,
                           color |-> c[i].color]] = defaultCategories

C8_SeedIdempotent ==
  [][/\ ( /\ seedPc # "done" /\ seedPc' = "done"
          /\ seedFrom.Branch = <<>> /\ seedFrom.Category = <<>> ) =>
          /\ Seeded(Branch', Category')
          /\ Len(Branch') = 7 /\ Len(Category') = 3
     /\ ( SeedActive /\ Seeded(seedFrom.Branch, seedFrom.Category) ) =>
          Collections' = Collections
    ]_vars

\* the process was started again on the store the first run seeded and
\* the second run has finished
C8_Witness ==
  /\ restarts = 1 /\ seedPc = "done"
  /\ Seeded(seedFrom.Branch, seedFrom.Category)
  /\ Branch = seedFrom.Branch /\ Category = seedFrom.Category
  /\ Len(Branch) = 7 /\ Len(Category) = 3

\* C9: seedDefaultData is called at most once per process, in a step in
\* which the connection becomes connected; a later 'open' does not call it.
C9_SeedOnce ==
  /\ [](seedStarts <= 1)
  /\ [][seedStarts' > seedStarts =>
          seedStarts = 0 /\ readyState # 1 /\ readyState' = 1 /\ seedPc = "notCalled"]_vars
  /\ [](seedPc # "notCalled" => seedStarts = 1)

\* the connection was lost and opened again, seeding was called once
C9_Witness == reconnects = 1 /\ readyState = 1 /\ seedStarts = 1 /\ ~openListener

\* C10: when seedDefaultData runs alone, each collection is seeded exactly
\* when it was empty, whatever the other holds, and a collection that was
\* not empty is left as it was.
C10_SeedIndependent ==
  [][/\ ( seedPc # "done" /\ seedPc' = "done" ) =>
          /\ IF seedFrom.Branch = <<>>
             THEN Names(Branch') = Names(defaultBranches)
             ELSE Branch' = seedFrom.Branch
          /\ IF seedFrom.Category = <<>>
             THEN Names(Category') = Names(defaultCategories)
             ELSE Category' = seedFrom.Category
     /\ ( seedPc = "Branch.estimatedDocumentCount" /\ seedPc' \notin {seedPc, "notCalled"} ) =>
          ( seedPc' = "Branch.insertMany" <=> Len(Branch) = 0 )
     /\ ( seedPc = "Category.estimatedDocumentCount" /\ seedPc' \notin {seedPc, "notCalled"} ) =>
          ( seedPc' = "Category.insertMany" <=> Len(Category) = 0 )
     /\ ( SeedActive /\ Branch' # Branch ) => branchCount = 0
     /\ ( SeedActive /\ Category' # Category ) => categoryCount = 0
    ]_vars

\* a run that found a populated Branch collection and an empty Category
\* collection has finished with the three default categories
C10_Witness ==
  /\ seedPc = "done"
  /\ seedFrom.Branch # <<>> /\ seedFrom.Category = <<>>
  /\ Branch = seedFrom.Branch
  /\ Names(Category) = Names(defaultCategories)

\* C11: a stored Sale is never changed, and it leaves the collection only
\* in the Sale.deleteMany step of a DELETE /api/branches/:id whose id is
\* the Sale's branchId; every other step keeps the stored sales as they
\* are, in their order (a Sale create appends to them).
CascadeOf(p, s) ==
  /\ req[p].route = "DELETE /api/branches/:id"
  /\ Completes(p, "Sale.deleteMany")
  /\ req[p].id = s.branchId

C11_SaleImmutable ==
  [][/\ \A i \in 1..Len(Sale) :
          \/ \E j \in 1..Len(Sale') : Sale'[j] = Sale[i]
          \/ /\ \A j \in 1..Len(Sale') : Sale'[j]._id # Sale[i]._id
             /\ \E p \in Procs : CascadeOf(p, Sale[i])
     /\ (\A p \in Procs : ~Completes(p, "Sale.deleteMany")) =>
          /\ Len(Sale') >= Len(Sale)
          /\ SubSeq(Sale', 1, Len(Sale)) = Sale
    ]_vars

\* seeding has run, branch 1 was deleted with its two sales, and the sale
\* of branch 2 is stored as it was created
C11_Witness ==
  /\ seedPc = "done" /\ Len(Category) = 3
  /\ req[1] = Request("DELETE /api/branches/:id", 1, NoBody)
  /\ res[1].status = 200
  /\ Sale = <<sale(2, 2)>>

\* C12: a GET /api/sales whose parameters are well formed answers 200 with
\* exactly the stored sales whose branchId is the branchId given, whose
\* date is not before from and not after to (each only if given; all
\* sales with no parameter), every one once, as stored but for the
\* resolved branch, in descending order of date.
Wanted(query) ==
  { i \in 1..Len(Sale) :
      /\ "branchId" \in DOMAIN query => Sale[i].branchId = query.branchId
      /\ "from" \in DOMAIN query => Sale[i].date >= NewDate(query.from)
      /\ "to" \in DOMAIN query => Sale[i].date <= NewDate(query.to) }

Unresolved(s) == [k \in DOMAIN s \ {"branchId"} |-> s[k]]

C12_SaleListing ==
  [][\A p \in Procs :
       ( /\ req[p].route = "GET /api/sales"
         /\ QueryValid(req[p].query)
         /\ Completes(p, "Sale.find") \/ Completes(p, "populate") ) =>
         LET body == res'[p].body IN
           /\ res'[p].status = 200
           /\ Len(body) = Cardinality(Wanted(req[p].query))
           /\ \A i \in Wanted(req[p].query) :
                \E j \in 1..Len(body) : Unresolved(body[j]) = Unresolved(Sale[i])
           /\ \A j \in 1..(Len(body) - 1) : body[j].date >= body[j + 1].date
    ]_vars

\* the five sample sales are stored and from = to = 2024-01-31 has
\* returned the two sales of that midnight, not the one of noon
C12_Witness ==
  /\ Len(Sale) = 5
  /\ req[1] = Query("GET /api/sales", [from |-> "2024-01-31", to |-> "2024-01-31"])
  /\ res[1].status = 200
  /\ {res[1].body[j]._id : j \in 1..Len(res[1].body)} = {1, 5}

\* C13: a POST /api/branches with a non-empty name answers 201 with a
\* record of that name whose _id no other Branch has, and stores it; one
\* with a missing or empty name answers 400 and leaves the Branch
\* collection as it was.  No two stored branches share an _id.
C13_DistinctIds ==
  \A i, j \in 1..Len(Branch) : i # j => Branch[i]._id # Branch[j]._id

C13_PostBranch ==
  /\ []C13_DistinctIds
  /\ [][\A p \in Procs :
          Completes(p, "Branch.create") =>
            IF "name" \in DOMAIN req[p].body /\ req[p].body.name # ""
            THEN /\ res'[p].status = 201
                 /\ res'[p].body.name = req[p].body.name
                 /\ res'[p].body._id \notin Ids(Branch)
                 /\ Branch' = Append(Branch, res'[p].body)
            ELSE /\ res'[p].status = 400
                 /\ Branch' = Branch
       ]_vars

\* next to the seven seeded branches a POST of name 'A' was answered 201
\* and stored, and a concurrent POST of an empty name was answered 400
C13_Witness ==
  \E p, q \in Procs :
    /\ req[p] = Request("POST /api/branches", BadId, [name |-> "A"])
    /\ res[p].status = 201
    /\ req[q] = Request("POST /api/branches", BadId, [name |-> ""])
    /\ res[q].status = 400
    /\ Len(Branch) = 8
    /\ \E i \in 1..Len(Branch) : Branch[i] = res[p].body

\* C14: a POST /api/sales without branchId or without date answers 400
\* and leaves the Sale collection as it was; with both present (and
\* castable: an ObjectId, a date) it answers 201 and appends a record
\* whose total, costTotal and profit are the numbers of the body, whatever
\* its items are.
C14_PostSale ==
  [][\A p \in Procs :
       Completes(p, "Sale.create") =>
         LET body == req[p].body IN
           IF "branchId" \notin DOMAIN body \/ "date" \notin DOMAIN body
           THEN /\ res'[p].status = 400
                /\ Sale' = Sale
           ELSE ( body.branchId # BadId /\ NewDate(body.date) # InvalidDate ) =>
                  /\ res'[p].status = 201
                  /\ Sale' = Append(Sale, res'[p].body)
                  /\ \A k \in {"total", "costTotal", "profit"} \cap DOMAIN body :
                       res'[p].body[k] = body[k]
    ]_vars

\* a sale of two items at 100 (cost 50) was posted with total 500,
\* costTotal 300 and profit 200, answered 201 and stored with those numbers
C14_Witness ==
  /\ res[1].status = 201
  /\ req[1].route = "POST /api/sales"
  /\ "items" \in DOMAIN req[1].body
  /\ \E i \in 1..Len(Sale) :
       /\ Sale[i] = res[1].body
       /\ Len(Sale[i].items) = 1
       /\ Sale[i].total = 500 /\ Sale[i].costTotal = 300 /\ Sale[i].profit = 200

\* C15: the Settings.create of a GET /api/settings answers 200 with a new
\* document holding '', 'PKR', 'DD/MM/YYYY', 10 and 70, and stores it; run
\* on an empty collection it makes that document the first.  A GET whose
\* findOne finds a document answers with the first document and creates
\* nothing, and the first document stays the same document and changes
\* only when a PUT completes.
C15_LazyDefaults ==
  [][/\ \A p \in Procs :
          Completes(p, "Settings.create") =>
            /\ res'[p].status = 200
            /\ res'[p].body.companyName = ""
            /\ res'[p].body.currency = "PKR"
            /\ res'[p].body.dateFormat = "DD/MM/YYYY"
            /\ res'[p].body.itemsPerPage = 10
            /\ res'[p].body.defaultCostPercent = 70
            /\ Settings' = Append(Settings, res'[p].body)
     /\ \A p \in Procs :
          ( pc[p] = "Settings.findOne" /\ pc'[p] # pc[p] ) =>
            /\ Settings' = Settings
            /\ IF Settings = <<>>
               THEN pc'[p] = "Settings.create"
               ELSE pc'[p] = "idle" /\ res'[p] = Json(200, Settings[1])
     /\ Settings # <<>> =>
          /\ Settings'[1]._id = Settings[1]._id
          /\ (\A p \in Procs : ~Completes(p, "Settings.findOneAndUpdate")) =>
               Settings'[1] = Settings[1]
    ]_vars

\* two GETs and no PUT: the first created the document with the defaults,
\* the second was answered with that document, and one document is stored
C15_Witness ==
  /\ received = 2
  /\ req[1].route = "GET /api/settings" /\ req[2].route = "GET /api/settings"
  /\ res[1].status = 200 /\ res[2] = res[1]
  /\ Settings = <<res[1].body>>
  /\ nextId.Settings = 2
  /\ Settings[1].currency = "PKR" /\ Settings[1].defaultCostPercent = 70

\* C16: no request is left unanswered: no handler ends, also after a
\* storage call of it has failed, without having sent its response.
C16_EveryRequestAnswered == \A p \in Procs : pc[p] # "rejected"

\* C17: the answer a handler gives when a storage call of it fails with a
\* storage error is 500 with {error: message}; every other error answer
\* (a validation error) is 400.
C17_ErrorStatus ==
  [][\A p \in Procs :
       /\ ( StorageError(p) /\ pc'[p] = "idle" ) =>
            res'[p].status = 500 /\ res'[p].body = Error("StorageError")
       /\ ( /\ pc[p] # "idle" /\ pc'[p] = "idle"
            /\ res'[p].status >= 400
            /\ ~StorageError(p) ) =>
            res'[p].status = 400
    ]_vars

\* C18: when Sale.deleteMany of a DELETE /api/branches/:id fails after
\* the Branch was deleted, the Branch stays deleted, the sales stay, the
\* handler ends (no retry) and the answer is 500.
C18_CascadeFailure ==
  [][\A p \in Procs :
       ( StorageError(p) /\ pc[p] = "Sale.deleteMany" ) =>
         /\ Branch' = Branch /\ ~Exists(Branch', req[p].id)
         /\ Sale' = Sale
         /\ pc'[p] = "idle"
         /\ res'[p].status = 500
    ]_vars

\* C19: a PUT /api/branches/:id or PUT /api/categories/:id whose id is
\* well formed and is the _id of no record answers 200 with null and
\* leaves every collection as it was.
C19_PutUnknownId ==
  [][\A p \in Procs :
       /\ ( /\ Completes(p, "Branch.findByIdAndUpdate")
            /\ req[p].id # BadId
            /\ \A i \in 1..Len(Branch) : Branch[i]._id # req[p].id ) =>
            res'[p] = Json(200, Null) /\ Collections' = Collections
       /\ ( /\ Completes(p, "Category.findByIdAndUpdate")
            /\ req[p].id # BadId
            /\ \A i \in 1..Len(Category) : Category[i]._id # req[p].id ) =>
            res'[p] = Json(200, Null) /\ Collections' = Collections
    ]_vars

\* category 1 was deleted and a PUT /api/categories/1 was then answered
\* 200 with null; the two other seeded categories are all that is stored
C19_Witness ==
  /\ received = 2
  /\ req[1] = Request("PUT /api/categories/:id", 1, [name |-> "X"])
  /\ res[1].status = 200 /\ res[1].body = Null
  /\ Ids(Category) = {2, 3}

\* C20: a PUT /api/branches/:id on a stored Branch gives that Branch the
\* fields of the body and leaves its other fields and its _id as they
\* were; every other Branch and the Sale, Category and Settings
\* collections are unchanged.
C20_PutBranchFrame ==
  [][\A p \in Procs :
       ( /\ Completes(p, "Branch.findByIdAndUpdate")
         /\ \E i \in 1..Len(Branch) : Branch[i]._id = req[p].id ) =>
         /\ Len(Branch') = Len(Branch)
         /\ \A i \in 1..Len(Branch) :
              IF Branch[i]._id = req[p].id
              THEN /\ Branch'[i]._id = Branch[i]._id
                   /\ \A k \in {"name", "address", "phone", "email"} :
                        Branch'[i][k] = IF k \in DOMAIN req[p].body
                                        THEN req[p].body[k] ELSE Branch[i][k]
              ELSE Branch'[i] = Branch[i]
         /\ Sale' = Sale /\ Category' = Category /\ Settings' = Settings
    ]_vars

\* branch 2, stored with name 'A' and address 'addr', was PUT a name
\* alone: it has the new name and its address; branch 1, the three sales
\* and the seeded categories are as they were
C20_Witness ==
  /\ req[1] = Request("PUT /api/branches/:id", 2, [name |-> ""])
  /\ res[1].status = 200
  /\ Branch = <<b1, [b2 EXCEPT !.name = ""]>>
  /\ Sale = <<sale(1, 1), sale(2, 2), sale(3, 1)>>
  /\ Len(Category) = 3

\* ------------------------------------------------------------------ C21
\* C21: a request whose path is both the path of a route of the API that
\* the running server file registers and the path of a file of clientDir
\* is answered by the handler of the route, never by express.static.
ApiLayer(r) ==
  \E i \in 1..Len(Layers(entry)) :
    Layers(entry)[i] # "express.static" /\ Matches(Layers(entry)[i], r)

C21_ApiBeforeStatic ==
  \A p \in Procs :
    (req[p] # NoRequest /\ res[p] # NoResponse /\ ApiLayer(req[p]))
      => res[p].type # "file"

\* the collision happens and the API handler answers
C21_Witness ==
  \E p \in Procs :
    /\ req[p] # NoRequest /\ res[p].type = "json"
    /\ ApiLayer(req[p])
    /\ Path(req[p].route) \in files

\* ------------------------------------------------------------------ C22
\* C22: when the connection attempt made at start fails (the connection
\* goes from connecting to disconnected), the process exits; and once the
\* process has exited no request is received, no handler takes a step, no
\* response is sent and no collection changes.
C22_ExitOnConnectFailure ==
  [][ /\ (readyState = 2 /\ readyState' = 0) => ~running'
      /\ ~running => UNCHANGED <<http, store>> ]_vars

\* the attempt has failed while a request was waiting for the connection
C22_Witness ==
  /\ ~running /\ readyState = 0
  /\ \E p \in Procs : pc[p] # "idle" /\ res[p] = NoResponse

\* ------------------------------------------------------------------ C23
\* the quality a client gives a media type: the q of the range that names
\* the type, else the q of */*, else 0; without an Accept header every type
\* is as good as every other
Quality(mime, header) ==
  IF header = NoAccept THEN 10
  ELSE IF \E i \in 1..Len(header) : header[i].type = mime
       THEN header[CHOOSE i \in 1..Len(header) : header[i].type = mime].q
       ELSE IF \E i \in 1..Len(header) : header[i].type = "*/*"
            THEN header[CHOOSE i \in 1..Len(header) : header[i].type = "*/*"].q
            ELSE 0

RanksHtmlAboveJson(header) ==
  Quality("text/html", header) > Quality("application/json", header)

\* C23: GET /api/settings is answered with the HTML table exactly when the
\* Accept header of the request ranks text/html above application/json, and
\* with JSON otherwise; GET /api/branches, /api/categories and /api/sales
\* are answered with JSON whatever the Accept header.
C23_ContentNegotiation ==
  \A p \in Procs :
    (req[p] # NoRequest /\ res[p] # NoResponse) =>
      /\ req[p].route = "GET /api/settings" =>
           (res[p].type = "html" <=> RanksHtmlAboveJson(req[p].accept))
      /\ req[p].route \in {"GET /api/branches", "GET /api/categories", "GET /api/sales"} =>
           res[p].type = "json"

\* ------------------------------------------------------------------ C24
\* C24: once a DELETE /api/branches/:id and the POST /api/sales requests
\* that were received while their branch existed have all completed, no
\* Sale record references the branch the DELETE removed.
C24_NoSaleOfDeletedBranch ==
  (\A p \in Procs : pc[p] = "idle") =>
    \A p \in Procs :
      (req[p].route = "DELETE /api/branches/:id" /\ res[p] = Json(200, Ok))
        => ~Refers(Sale, req[p].id)

\* ------------------------------------------------------------------ C25
\* C25: with requests running next to seedDefaultData, the insertMany of
\* the default branches runs only on a Branch collection that is empty at
\* that moment, and the insertMany of the default categories runs only on
\* a Category collection that is empty at that moment and stores all of
\* the default categories.
C25_SeedIntoEmpty ==
  [][ /\ (seedPc = "Branch.insertMany" /\ seedPc' = "Category.estimatedDocumentCount")
         => Len(Branch) = 0
      /\ (seedPc = "Category.insertMany" /\ seedPc' \in {"done", "failed"})
         => (Len(Category) = 0 /\ Len(Category') = Len(defaultCategories)) ]_vars

\* ------------------------------------------------------------------ C26
ReadOnlyRoutes ==
  {"GET /api/health", "GET /api/branches", "GET /api/categories",
   "GET /api/sales", "GET /api/unknown"}

\* C26: no step of a GET /api/health, /api/branches, /api/categories,
\* /api/sales or unmatched GET /api/* request changes a collection (the
\* branch names that populate resolves are not stored); a GET
\* /api/settings goes on to create only when its findOne read an empty
\* Settings collection, its create appends exactly one Settings document
\* and changes no other collection, and no other step of it changes a
\* collection.
C26_GetFrame ==
  [][ \A p \in Procs :
        /\ (received' # received /\ req'[p].route \in ReadOnlyRoutes \cup {"GET /api/settings"})
             => UNCHANGED Collections
        /\ (pc[p] # "idle" /\ pc'[p] # pc[p] /\ req[p].route \in ReadOnlyRoutes)
             => UNCHANGED Collections
        /\ (pc[p] = "Settings.findOne" /\ pc'[p] # pc[p])
             => /\ UNCHANGED Collections
                /\ pc'[p] = "Settings.create" <=> Len(Settings) = 0
        /\ (pc[p] = "Settings.create" /\ pc'[p] # pc[p])
             => /\ Len(Settings') = Len(Settings) + 1
                /\ SubSeq(Settings', 1, Len(Settings)) = Settings
                /\ UNCHANGED <<Branch, Category, Sale>> ]_vars

\* a GET /api/settings has created the Settings document, and after it a
\* GET /api/sales has answered sales with their branch names resolved
C26_Witness ==
  /\ Len(Settings) = 1
  /\ \E p \in Procs :
       /\ req[p].route = "GET /api/sales" /\ res[p].status = 200
       /\ Len(res[p].body) = Len(Sale) /\ Len(Sale) > 0
       /\ res[p].body[1].branchId.name = "A"

====
